---- MODULE Spec2Model ----
(***************************************************************************)
(* Model of crates/aptos-dkg/src/pvss/weighted/weighted_config.rs:         *)
(* the weighted threshold configuration, its virtual-player indexing and   *)
(* its three eligible-subset selection strategies.                         *)
(*                                                                         *)
(* Rust vectors are modelled as TLA+ sequences; a Rust index i is the      *)
(* sequence position i + 1 (operator At).  A Player is modelled by its id. *)
(* Vec<Player> and Option<usize> results are sequences of naturals         *)
(* (None = << >>, Some(x) = << x >>).  A panic (failed assert_lt!, index   *)
(* out of bounds, unwrap of None, gen_range on an empty range) is the      *)
(* result Panic.  usize arithmetic is modelled on the naturals: the        *)
(* bounds below keep every sum far from 2^64.                              *)
(***************************************************************************)
EXTENDS Naturals, Sequences, FiniteSets

\* ------------------------------------------------------------------ bounds
MaxPlayers == 3
MaxWeight == 2
MaxThreshold == 7

\* ----------------------------------------------------------------- helpers
\* Rust 0-based indexing into a Vec.
At(s, i) == s[i + 1]

\* Result of a call that returned normally / that panicked.
Ok(v) == [panic |-> FALSE, val |-> v]
Panic == [panic |-> TRUE, val |-> << >>]

\* Option<usize>
None == << >>
Some(x) == << x >>

\* The absent config / absent error of a Result.
NoConfig == [tc |-> [t |-> 0, n |-> 0], num_players |-> 0, weight |-> << >>,
             starting_index |-> << >>, max_player_weight |-> 0]
NoErr == << "ok", 0 >>

\* anyhow! errors of WeightedConfig::new, by the spec's names.
InvalidThreshold == << "expected the minimum reconstruction weight to be > 0", 0 >>
EmptyWeightVector == << "expected a non-empty vector of player weights", 0 >>
ZeroPlayerWeight(idx) == << "expected player at index {idx} to have weight > 0", idx >>
ThresholdExceedsTotal == << "ThresholdConfig::new: t > n", 0 >>

\* ------------------------------------------------------ external collaborators
\* ThresholdConfig::new(t, n): validates t <= n.
ThresholdConfigNew(t, n) ==
    IF t > n
    THEN [ok |-> FALSE, err |-> ThresholdExceedsTotal, tc |-> [t |-> 0, n |-> 0]]
    ELSE [ok |-> TRUE, err |-> NoErr, tc |-> [t |-> t, n |-> n]]

\* SecretSharingConfig::get_player(i): Player { id: i }.
get_player(i) == i

\* ------------------------------------------------------- WeightedConfig::new
\* weights.iter().max().unwrap()
RECURSIVE MaxOf(_)
MaxOf(s) ==
    IF Len(s) = 1 THEN s[1]
    ELSE LET m == MaxOf(Tail(s)) IN IF s[1] >= m THEN s[1] ELSE m

\* The first index whose weight is 0 (the for loop returns at the first hit);
\* Len(weights) when there is none.
RECURSIVE FirstZeroFrom(_, _)
FirstZeroFrom(weights, idx) ==
    IF idx >= Len(weights) THEN Len(weights)
    ELSE IF At(weights, idx) = 0 THEN idx
    ELSE FirstZeroFrom(weights, idx + 1)

\* Mutant: the zero-weight scan reports the last offending index.
RECURSIVE LastZeroFrom(_, _)
LastZeroFrom(weights, idx) ==
    IF idx >= Len(weights) THEN Len(weights)
    ELSE LET later == LastZeroFrom(weights, idx + 1) IN
         IF later < Len(weights) THEN later
         ELSE IF At(weights, idx) = 0 THEN idx ELSE Len(weights)

LastZero(weights) == LastZeroFrom(weights, 0)

FirstZero(weights) == FirstZeroFrom(weights, 0)

\* weights.iter().sum()
RECURSIVE SumWeights(_)
SumWeights(weights) ==
    IF Len(weights) = 0 THEN 0
    ELSE weights[1] + SumWeights(Tail(weights))

\* starting_index.push(0); for w in weights.iter().take(n - 1) { push(last + w) }
RECURSIVE PushStartingIndex(_, _, _)
PushStartingIndex(starting_index, weights, k) ==
    IF k >= Len(weights) - 1 THEN starting_index
    ELSE PushStartingIndex(
            Append(starting_index,
                   starting_index[Len(starting_index)] + At(weights, k)),
            weights, k + 1)

\* Mutant: the running sum starts from the first weight (inclusive prefix sum).
StartingIndexInclusive(weights) ==
    [i \in 1..Len(weights) |-> SumWeights(SubSeq(weights, 1, i))]

StartingIndex(weights) == PushStartingIndex(<< 0 >>, weights, 0)

\* Result<WeightedConfig>: [ok, err, wc]
Err(e) == [ok |-> FALSE, err |-> e, wc |-> NoConfig]

\* Mutant: the error of ThresholdConfig::new is not propagated.
WeightedConfigNewNoPropagate(tw, weights) ==
    IF tw = 0 THEN Err(InvalidThreshold)
    ELSE IF Len(weights) = 0 THEN Err(EmptyWeightVector)
    ELSE IF FirstZero(weights) < Len(weights)
         THEN Err(ZeroPlayerWeight(FirstZero(weights)))
    ELSE [ok |-> TRUE, err |-> NoErr,
          wc |-> [tc |-> [t |-> tw, n |-> SumWeights(weights)],
                  num_players |-> Len(weights),
                  weight |-> weights,
                  starting_index |-> StartingIndex(weights),
                  max_player_weight |-> MaxOf(weights)]]

\* new(threshold_weight, weights) -> anyhow::Result<Self>
WeightedConfigNew(tw, weights) ==
    IF tw = 0 THEN Err(InvalidThreshold)
    ELSE IF Len(weights) = 0 THEN Err(EmptyWeightVector)
    ELSE IF FirstZero(weights) < Len(weights)
         THEN Err(ZeroPlayerWeight(FirstZero(weights)))
    ELSE LET n == Len(weights)
             W == SumWeights(weights)
             r == ThresholdConfigNew(tw, W)
         IN IF ~r.ok THEN Err(r.err)
            ELSE [ok |-> TRUE, err |-> NoErr,
                  wc |-> [tc |-> r.tc,
                          num_players |-> n,
                          weight |-> weights,
                          starting_index |-> StartingIndex(weights),
                          max_player_weight |-> MaxOf(weights)]]

\* ------------------------------------------------------------------ accessors
get_threshold_weight(c) == c.tc.t
get_total_weight(c) == c.tc.n

\* self.weight[player.id]: an out-of-bounds index panics.
get_player_weight(c, player) ==
    IF player < Len(c.weight) THEN Ok(At(c.weight, player)) ELSE Panic

\* ---------------------------------------------------- virtual-player mapping
\* Mutant: the weight lookup is bounds-tolerant (weight.get(i)), so an index
\* in [num_players, total_weight) yields None instead of a panic.
get_share_index_lenient(c, i, j) ==
    IF ~(i < c.tc.n) THEN Panic
    ELSE IF ~(i < Len(c.weight)) THEN Ok(None)
    ELSE IF j < At(c.weight, i)
         THEN Ok(Some(At(c.starting_index, i) + j))
         ELSE Ok(None)

\* assert_lt!(i, self.tc.n); then self.weight[i] and self.starting_index[i],
\* each of which panics on an out-of-bounds index.
get_share_index(c, i, j) ==
    IF ~(i < c.tc.n) THEN Panic
    ELSE IF ~(i < Len(c.weight)) THEN Panic
    ELSE IF j < At(c.weight, i)
         THEN (IF i < Len(c.starting_index)
               THEN Ok(Some(At(c.starting_index, i) + j))
               ELSE Panic)
         ELSE Ok(None)

\* assert_lt!(j, self.weight[player.id]); get_share_index(..).unwrap()
get_virtual_player(c, player, j) ==
    IF ~(player < Len(c.weight)) THEN Panic
    ELSE IF ~(j < At(c.weight, player)) THEN Panic
    ELSE LET r == get_share_index(c, player, j) IN
         IF r.panic \/ r.val = None THEN Panic
         ELSE Ok(r.val[1])

\* Mutant: the range starts at 1 (1..=w) instead of 0.
get_all_virtual_players_from_one(c, player) ==
    LET w == get_player_weight(c, player) IN
    IF w.panic THEN Panic
    ELSE IF \E k \in 1..w.val : get_virtual_player(c, player, k).panic
         THEN Panic
         ELSE Ok([k \in 1..w.val |-> get_virtual_player(c, player, k).val])

\* (0..w).map(|i| self.get_virtual_player(player, i)).collect()
get_all_virtual_players(c, player) ==
    LET w == get_player_weight(c, player) IN
    IF w.panic THEN Panic
    ELSE IF \E k \in 1..w.val : get_virtual_player(c, player, k - 1).panic
         THEN Panic
         ELSE Ok([k \in 1..w.val |-> get_virtual_player(c, player, k - 1).val])

\* ------------------------------------------------------- subset selection
\* self.weight.iter().enumerate().map(|(i, w)| (i, *w)).collect()
EnumerateWeights(c) == [k \in 1..Len(c.weight) |-> << k - 1, c.weight[k] >>]

\* Stable insertion of x into a sequence sorted ascending by weight: x goes
\* after every element whose weight is <= its own.
RECURSIVE InsertByWeight(_, _)
InsertByWeight(sorted, x) ==
    IF Len(sorted) = 0 THEN << x >>
    ELSE IF sorted[Len(sorted)][2] <= x[2] THEN Append(sorted, x)
    ELSE Append(InsertByWeight(SubSeq(sorted, 1, Len(sorted) - 1), x),
                sorted[Len(sorted)])

RECURSIVE SortByWeight(_, _)
SortByWeight(s, k) ==
    IF k = 0 THEN << >>
    ELSE InsertByWeight(SortByWeight(s, k - 1), s[k])

\* Vec::reverse
Reverse(s) == [k \in 1..Len(s) |-> s[Len(s) + 1 - k]]

\* Mutant: the sort is skipped (candidates stay in player order).
sort_players_by_weight_unsorted(c) == EnumerateWeights(c)

\* Mutant: the comparator is flipped (b.1.cmp(&a.1)), a stable descending sort.
sort_players_by_weight_descending(c) ==
    LET e == EnumerateWeights(c) IN
    Reverse(SortByWeight(Reverse(e), Len(e)))

\* player_and_weights.sort_by(|a, b| a.1.cmp(&b.1)) -- a stable ascending sort
sort_players_by_weight(c) ==
    SortByWeight(EnumerateWeights(c), Len(EnumerateWeights(c)))

\* The while loop of pop_eligible_subset; pop().unwrap() on an empty vector
\* panics.
RECURSIVE PopLoop(_, _, _, _)
PopLoop(c, player_and_weights, picked_players, current_weight) ==
    IF current_weight < c.tc.t
    THEN IF Len(player_and_weights) = 0 THEN Panic
         ELSE LET e == player_and_weights[Len(player_and_weights)] IN
              PopLoop(c,
                      SubSeq(player_and_weights, 1, Len(player_and_weights) - 1),
                      Append(picked_players, get_player(e[1])),
                      current_weight + e[2])
    ELSE Ok(picked_players)

\* Mutant: the loop runs while current_weight <= t (one pick too many).
RECURSIVE PopLoopInclusive(_, _, _, _)
PopLoopInclusive(c, player_and_weights, picked_players, current_weight) ==
    IF current_weight <= c.tc.t
    THEN IF Len(player_and_weights) = 0 THEN Panic
         ELSE LET e == player_and_weights[Len(player_and_weights)] IN
              PopLoopInclusive(c,
                      SubSeq(player_and_weights, 1, Len(player_and_weights) - 1),
                      Append(picked_players, get_player(e[1])),
                      current_weight + e[2])
    ELSE Ok(picked_players)

pop_eligible_subset_inclusive(c, player_and_weights) ==
    PopLoopInclusive(c, player_and_weights, << >>, 0)

pop_eligible_subset(c, player_and_weights) ==
    PopLoop(c, player_and_weights, << >>, 0)

get_best_case_eligible_subset_of_players(c) ==
    pop_eligible_subset(c, sort_players_by_weight(c))

get_worst_case_eligible_subset_of_players(c) ==
    pop_eligible_subset(c, Reverse(sort_players_by_weight(c)))

\* player_and_weights.swap(idx, len - 1); player_and_weights.pop()
SwapRemove(s, idx) ==
    [k \in 1..(Len(s) - 1) |-> IF k = idx + 1 THEN s[Len(s)] ELSE s[k]]

\* Mutant: the picked candidate is never removed.
RemovePickedNever(s, idx) == s

\* if len > 1 { swap(idx, len - 1); pop() }
RemovePicked(s, idx) == IF Len(s) > 1 THEN SwapRemove(s, idx) ELSE s

\* Mutant: the loop of the random selection runs while current_weight <= t.
RandomLoopCondInclusive(c, cw) == cw <= c.tc.t

\* while current_weight < self.tc.t
RandomLoopCond(c, cw) == cw < c.tc.t

\* ------------------------------------------------------------ state machine
VARIABLES
    threshold_weight,    \* argument of WeightedConfig::new
    weights,             \* argument of WeightedConfig::new
    pc,                  \* "start", "ready", "failed", "random", "panicked"
    result,              \* what WeightedConfig::new returned
    last,                \* the last call on the config and what it returned
    picked_players,      \* locals of get_random_eligible_subset_of_players
    player_and_weights,
    current_weight

vars == << threshold_weight, weights, pc, result, last,
           picked_players, player_and_weights, current_weight >>

locals == << picked_players, player_and_weights, current_weight >>

wc == result.wc

Call(op, args, r) == [op |-> op, args |-> args, panic |-> r.panic, val |-> r.val]
NoCall == [op |-> "none", args |-> << >>, panic |-> FALSE, val |-> << >>]

WeightVectors == UNION { [1..n -> 0..MaxWeight] : n \in 0..MaxPlayers }

\* Indices handed to get_share_index: the players, the indices from
\* num_players up to the total weight, and two indices from the total weight on.
Indices(c) == 0..(get_total_weight(c) + 1)

\* Largest offset handed to the index queries: one past every player weight.
MaxOffset == MaxWeight + 1

Init ==
    /\ threshold_weight \in 0..MaxThreshold
    /\ weights \in WeightVectors
    /\ pc = "start"
    /\ result = Err(NoErr)
    /\ last = NoCall
    /\ picked_players = << >>
    /\ player_and_weights = << >>
    /\ current_weight = 0

After(r) == IF r.panic THEN "panicked" ELSE "ready"

New ==
    /\ pc = "start"
    /\ result' = WeightedConfigNew(threshold_weight, weights)
    /\ pc' = IF result'.ok THEN "ready" ELSE "failed"
    /\ UNCHANGED << threshold_weight, weights, last, locals >>

GetShareIndex ==
    /\ pc = "ready"
    /\ \E i \in Indices(wc), j \in 0..MaxOffset :
          LET r == get_share_index(wc, i, j) IN
          /\ last' = Call("get_share_index", << i, j >>, r)
          /\ pc' = After(r)
    /\ UNCHANGED << threshold_weight, weights, result, locals >>

GetVirtualPlayer ==
    /\ pc = "ready"
    /\ \E p \in 0..MaxPlayers, j \in 0..MaxOffset :
          LET r == get_virtual_player(wc, p, j) IN
          /\ last' = Call("get_virtual_player", << p, j >>,
                          IF r.panic THEN r ELSE Ok(<< r.val >>))
          /\ pc' = After(r)
    /\ UNCHANGED << threshold_weight, weights, result, locals >>

GetAllVirtualPlayers ==
    /\ pc = "ready"
    /\ \E p \in 0..MaxPlayers :
          LET r == get_all_virtual_players(wc, p) IN
          /\ last' = Call("get_all_virtual_players", << p >>, r)
          /\ pc' = After(r)
    /\ UNCHANGED << threshold_weight, weights, result, locals >>

GetBestCase ==
    /\ pc = "ready"
    /\ LET r == get_best_case_eligible_subset_of_players(wc) IN
          /\ last' = Call("get_best_case_eligible_subset_of_players", << >>, r)
          /\ pc' = After(r)
    /\ UNCHANGED << threshold_weight, weights, result, locals >>

GetWorstCase ==
    /\ pc = "ready"
    /\ LET r == get_worst_case_eligible_subset_of_players(wc) IN
          /\ last' = Call("get_worst_case_eligible_subset_of_players", << >>, r)
          /\ pc' = After(r)
    /\ UNCHANGED << threshold_weight, weights, result, locals >>

\* get_random_eligible_subset_of_players: entry, one loop iteration, return.
\* The locals live from entry to return; last holds no result while the call
\* is in progress.
RandomBegin ==
    /\ pc = "ready"
    /\ picked_players' = << >>
    /\ player_and_weights' = EnumerateWeights(wc)
    /\ current_weight' = 0
    /\ last' = NoCall
    /\ pc' = "random"
    /\ UNCHANGED << threshold_weight, weights, result >>

RandomIter ==
    /\ pc = "random"
    /\ RandomLoopCond(wc, current_weight)
    /\ IF Len(player_and_weights) = 0
       THEN \* rng.gen_range(0, 0) panics
            /\ last' = Call("get_random_eligible_subset_of_players", << >>, Panic)
            /\ pc' = "panicked"
            /\ UNCHANGED locals
       ELSE \E idx \in 0..(Len(player_and_weights) - 1) :
            LET e == At(player_and_weights, idx) IN
            /\ picked_players' = Append(picked_players, get_player(e[1]))
            /\ player_and_weights' = RemovePicked(player_and_weights, idx)
            /\ current_weight' = current_weight + e[2]
            /\ UNCHANGED << last, pc >>
    /\ UNCHANGED << threshold_weight, weights, result >>

RandomReturn ==
    /\ pc = "random"
    /\ ~RandomLoopCond(wc, current_weight)
    /\ last' = Call("get_random_eligible_subset_of_players", << >>,
                    Ok(picked_players))
    /\ picked_players' = << >>
    /\ player_and_weights' = << >>
    /\ current_weight' = 0
    /\ pc' = "ready"
    /\ UNCHANGED << threshold_weight, weights, result >>

Next ==
    \/ New
    \/ GetShareIndex
    \/ GetVirtualPlayer
    \/ GetAllVirtualPlayers
    \/ GetBestCase
    \/ GetWorstCase
    \/ RandomBegin
    \/ RandomIter
    \/ RandomReturn

Spec == Init /\ [][Next]_vars

\* ------------------------------------------------------------- properties
\* Sum of a sequence of naturals.
RECURSIVE SeqSum(_)
SeqSum(s) == IF s = << >> THEN 0 ELSE SeqSum(SubSeq(s, 1, Len(s) - 1)) + s[Len(s)]

\* Combined weight of a sequence of players / of a set of players.
WeightOfPlayers(c, ps) == SeqSum([k \in 1..Len(ps) |-> c.weight[ps[k] + 1]])

RECURSIVE WeightOfSet(_, _)
WeightOfSet(c, S) ==
    IF S = {} THEN 0
    ELSE LET p == CHOOSE x \in S : TRUE IN c.weight[p + 1] + WeightOfSet(c, S \ {p})

Players(c) == 0..(c.num_players - 1)

RandomOp == "get_random_eligible_subset_of_players"
BestOp == "get_best_case_eligible_subset_of_players"
WorstOp == "get_worst_case_eligible_subset_of_players"

\* The contiguous block of virtual-player ids owned by player p.
Block(c, p) == [k \in 1..c.weight[p + 1] |-> c.starting_index[p + 1] + k - 1]

\* C1: every config accepted by WeightedConfig::new has a starting_index of
\* exactly num_players entries, whose first entry is 0 and whose entry i > 0
\* is weight[0] + ... + weight[i-1].
C1_StartingIndexIsPrefixSum ==
    result.ok =>
        /\ wc.weight = weights
        /\ wc.num_players = Len(weights)
        /\ Len(wc.starting_index) = wc.num_players
        /\ wc.starting_index[1] = 0
        /\ \A i \in 1..(wc.num_players - 1) :
              wc.starting_index[i + 1] = SeqSum(SubSeq(wc.weight, 1, i))

C1_Witness ==
    /\ result.ok
    /\ wc.num_players >= 3
    /\ wc.weight[1] # wc.weight[2]
    /\ wc.starting_index[3] >= 3

\* C2: get_all_virtual_players(p) returns, in ascending order, exactly the
\* ids starting_index[p] .. starting_index[p] + weight[p] - 1, and over all
\* players these blocks partition [0, W): every id below W is produced for
\* exactly one player and no id from W on is produced.
C2_VirtualPlayersPartition ==
    (last.op = "get_all_virtual_players" /\ last.args[1] \in Players(wc)) =>
        /\ ~last.panic
        /\ last.val = Block(wc, last.args[1])
        /\ Len(last.val) = wc.weight[last.args[1] + 1]
        /\ LET all == [p \in Players(wc) |-> get_all_virtual_players(wc, p)] IN
           /\ all[last.args[1]].val = last.val
           /\ \A p \in Players(wc) : ~all[p].panic
           /\ \A id \in 0..(get_total_weight(wc) + MaxWeight) :
                 Cardinality({ p \in Players(wc) :
                     \E k \in 1..Len(all[p].val) : all[p].val[k] = id })
                   = IF id < get_total_weight(wc) THEN 1 ELSE 0

C2_Witness ==
    /\ last.op = "get_all_virtual_players"
    /\ ~last.panic
    /\ last.args[1] >= 1
    /\ Len(last.val) >= 2

AllPositive(ws) == Len(ws) >= 1 /\ \A k \in 1..Len(ws) : ws[k] >= 1

\* C3: with threshold_weight >= 1 and a non-empty all-positive weight vector,
\* new returns an error and no config whenever threshold_weight exceeds the
\* sum of the weights; every constructed config has
\* 1 <= get_threshold_weight() <= get_total_weight() = sum(weight).
C3_ThresholdWithinTotal ==
    /\ (pc # "start" /\ threshold_weight >= 1 /\ AllPositive(weights)
           /\ threshold_weight > SeqSum(weights)) =>
          (~result.ok /\ result.err # NoErr /\ wc = NoConfig)
    /\ result.ok =>
          /\ 1 <= get_threshold_weight(wc)
          /\ get_threshold_weight(wc) <= get_total_weight(wc)
          /\ get_total_weight(wc) = SeqSum(wc.weight)

C3_Witness ==
    /\ pc = "failed"
    /\ threshold_weight >= 1
    /\ AllPositive(weights)
    /\ Len(weights) >= 2
    /\ threshold_weight = SeqSum(weights) + 1

HasZero(ws) == \E k \in 1..Len(ws) : ws[k] = 0
SmallestZero(ws) ==
    CHOOSE i \in 0..(Len(ws) - 1) :
        ws[i + 1] = 0 /\ \A j \in 0..(Len(ws) - 1) : j < i => ws[j + 1] # 0

\* C4: new checks in a fixed order: threshold_weight = 0 fails with
\* InvalidThreshold whatever the weights; otherwise empty weights fail with
\* EmptyWeightVector; otherwise a zero weight fails with ZeroPlayerWeight(i),
\* i the smallest index of a zero weight; each before the
\* threshold-exceeds-total error.
C4_FailureOrder ==
    pc # "start" =>
        /\ threshold_weight = 0 =>
              (~result.ok /\ result.err = InvalidThreshold)
        /\ (threshold_weight # 0 /\ Len(weights) = 0) =>
              (~result.ok /\ result.err = EmptyWeightVector)
        /\ (threshold_weight # 0 /\ Len(weights) # 0 /\ HasZero(weights)) =>
              (~result.ok /\ result.err = ZeroPlayerWeight(SmallestZero(weights)))

C4_Witness ==
    /\ pc = "failed"
    /\ result.err = ZeroPlayerWeight(1)
    /\ Len(weights) >= 3
    /\ weights[3] = 0
    /\ threshold_weight > SeqSum(weights)

\* C5: on a constructed config each selection strategy ends without picking
\* from an empty candidate set (the random one for every sequence of draws,
\* after at most num_players picks) and returns players whose combined
\* weight is >= threshold_weight.
C5_SelectionsSucceed ==
    /\ last.op \in {RandomOp, BestOp, WorstOp} =>
          /\ ~last.panic
          /\ WeightOfPlayers(wc, last.val) >= get_threshold_weight(wc)
    /\ pc = "random" =>
          /\ Len(picked_players) <= wc.num_players
          /\ RandomLoopCond(wc, current_weight) => Len(player_and_weights) > 0

C5_Witness ==
    /\ last.op = RandomOp
    /\ ~last.panic
    /\ wc.num_players >= 2
    /\ Len(last.val) = wc.num_players
    /\ WeightOfPlayers(wc, last.val) = get_threshold_weight(wc)

\* C6: the random selection returns players of total weight >= threshold,
\* and without the last-added player the total is below the threshold.
C6_RandomStopsAtThreshold ==
    (last.op = RandomOp /\ ~last.panic) =>
        /\ Len(last.val) >= 1
        /\ WeightOfPlayers(wc, last.val) >= get_threshold_weight(wc)
        /\ WeightOfPlayers(wc, SubSeq(last.val, 1, Len(last.val) - 1))
              < get_threshold_weight(wc)

C6_Witness ==
    /\ last.op = RandomOp
    /\ ~last.panic
    /\ wc.num_players >= 2
    /\ Len(last.val) = wc.num_players
    /\ WeightOfPlayers(wc, last.val) > get_threshold_weight(wc)

\* C7: on the same config the best-case selection returns no more players
\* than the worst-case selection.
C7_BestNoLargerThanWorst ==
    /\ last.op = BestOp =>
          /\ ~last.panic
          /\ ~get_worst_case_eligible_subset_of_players(wc).panic
          /\ Len(last.val) <= Len(get_worst_case_eligible_subset_of_players(wc).val)
    /\ last.op = WorstOp =>
          /\ ~last.panic
          /\ ~get_best_case_eligible_subset_of_players(wc).panic
          /\ Len(get_best_case_eligible_subset_of_players(wc).val) <= Len(last.val)

C7_Witness ==
    /\ last.op = WorstOp
    /\ ~last.panic
    /\ Len(get_best_case_eligible_subset_of_players(wc).val) < Len(last.val)
    /\ Len(last.val) < wc.num_players

C9_BestCaseMinimal ==
    last.op = BestOp =>
        /\ ~last.panic
        /\ \A k \in 1..(Len(last.val) - 1) :
              wc.weight[last.val[k] + 1] >= wc.weight[last.val[k + 1] + 1]
        /\ \A S \in SUBSET Players(wc) :
              WeightOfSet(wc, S) >= get_threshold_weight(wc) =>
                  Cardinality(S) >= Len(last.val)

C9_Witness ==
    /\ last.op = BestOp
    /\ ~last.panic
    /\ Len(last.val) >= 2
    /\ Len(last.val) < wc.num_players
    /\ last.val[1] = 0

Distinct(ps) == \A a, b \in 1..Len(ps) : a # b => ps[a] # ps[b]

\* C10: the players picked by the random selection are pairwise distinct and
\* each has an id in [0, num_players), during the loop and in the result.
C10_RandomWithoutReplacement ==
    /\ pc = "random" =>
          /\ Distinct(picked_players)
          /\ \A k \in 1..Len(picked_players) : picked_players[k] \in Players(wc)
    /\ (last.op = RandomOp /\ ~last.panic) =>
          /\ Distinct(last.val)
          /\ \A k \in 1..Len(last.val) : last.val[k] \in Players(wc)

\* The last candidate was picked and, being alone, was not removed.
C10_Witness ==
    /\ pc = "random"
    /\ wc.num_players >= 2
    /\ Len(picked_players) = wc.num_players
    /\ Len(player_and_weights) = 1
    /\ player_and_weights[1][1] = picked_players[Len(picked_players)]

====
